---- MODULE Spec2Model ----
(***************************************************************************)
(* Model of statrs' Categorical distribution                               *)
(* (src/src/distribution/categorical.rs).                                  *)
(*                                                                         *)
(* f64 values are modelled as records:                                     *)
(*   [k |-> "nan"]            NaN                                          *)
(*   [k |-> "inf", n = +-1]   +infinity / -infinity                        *)
(*   [k |-> "fin", n, d]      the finite value n/d (lowest terms, d > 0)   *)
(* Arithmetic follows IEEE-754 for the special values (NaN propagation,    *)
(* inf - inf, 0 * inf, inf / inf, x / 0) and overflows to infinity once a  *)
(* finite result rounds beyond F64_MAX.  Finite results inside the range   *)
(* are kept exact: rounding to 53 bits is not modelled, and the sign of    *)
(* zero is not modelled (every comparison in the source treats -0.0 as     *)
(* 0.0).  Comparisons with NaN are false, as in Rust.                      *)
(***************************************************************************)
EXTENDS Integers, Sequences, FiniteSets

\* ------------------------------------------------------------- bounds
\* longest weight slice passed to Categorical::new
MaxLen == 3
\* largest finite f64 of the scaled-down format (f64::MAX)
F64_MAX == 4
\* largest usize of the scaled-down format (usize::MAX)
USIZE_MAX == 9
\* the random source yields multiples of 1/UDen in [0, 1)
UDen == 4
\* largest of the small finite weights tried (besides F64_MAX itself)
MaxWeight == 2
\* number of uniform draws the random source is followed for
MaxDraws == 2

\* ------------------------------------------------------------- f64
Abs(i) == IF i < 0 THEN -i ELSE i

Sgn(i) == IF i < 0 THEN -1 ELSE IF i > 0 THEN 1 ELSE 0

RECURSIVE GCD(_, _)
GCD(a, b) == IF b = 0 THEN a ELSE GCD(b, a % b)

NaN == [k |-> "nan", n |-> 0, d |-> 1]

Inf == [k |-> "inf", n |-> 1, d |-> 1]

NegInf == [k |-> "inf", n |-> -1, d |-> 1]

SignedInf(s) == IF s < 0 THEN NegInf ELSE Inf

\* the finite value n/d in lowest terms (d > 0)
Rat(n, d) ==
    LET g == GCD(Abs(n), d)
    IN  [k |-> "fin", n |-> n \div g, d |-> d \div g]

\* the f64 result of an operation whose exact value is n/d (d > 0).  The
\* spacing of the format at F64_MAX is 1 and rounding is to nearest: a
\* magnitude of at least F64_MAX + 1/2 overflows to infinity of the same
\* sign, one between F64_MAX and that rounds to F64_MAX
Finite(n, d) ==
    IF 2 * Abs(n) >= (2 * F64_MAX + 1) * d THEN SignedInf(n)
    ELSE IF Abs(n) > F64_MAX * d THEN Rat(Sgn(n) * F64_MAX, 1)
    ELSE Rat(n, d)

\* `i as f64`
FromInt(i) == Finite(i, 1)

Zero == Rat(0, 1)

One == Rat(1, 1)

is_nan(x) == x.k = "nan"

FAdd(a, b) ==
    CASE is_nan(a) \/ is_nan(b) -> NaN
      [] a.k = "inf" /\ b.k = "inf" -> IF a.n = b.n THEN a ELSE NaN
      [] a.k = "inf" -> a
      [] b.k = "inf" -> b
      [] OTHER -> Finite(a.n * b.d + b.n * a.d, a.d * b.d)

FMul(a, b) ==
    CASE is_nan(a) \/ is_nan(b) -> NaN
      [] a.k = "inf" \/ b.k = "inf" ->
            IF a.n = 0 \/ b.n = 0 THEN NaN ELSE SignedInf(Sgn(a.n) * Sgn(b.n))
      [] OTHER -> Finite(a.n * b.n, a.d * b.d)

FDiv(a, b) ==
    CASE is_nan(a) \/ is_nan(b) -> NaN
      [] a.k = "inf" /\ b.k = "inf" -> NaN
      [] a.k = "inf" -> IF b.n < 0 THEN SignedInf(-a.n) ELSE a
      [] b.k = "inf" -> Zero
      [] b.n = 0 -> IF a.n = 0 THEN NaN ELSE SignedInf(a.n)
      [] OTHER -> Finite(Sgn(b.n) * a.n * b.d, a.d * Abs(b.n))

\* a < b
FLt(a, b) ==
    /\ ~is_nan(a)
    /\ ~is_nan(b)
    /\ CASE a.k = "inf" -> a.n < 0 /\ ~(b.k = "inf" /\ b.n < 0)
         [] b.k = "inf" -> b.n > 0
         [] OTHER -> a.n * b.d < b.n * a.d

\* a == b
FEq(a, b) == ~is_nan(a) /\ ~is_nan(b) /\ a = b

\* a <= b
FLe(a, b) == FLt(a, b) \/ FEq(a, b)

\* a > b
FGt(a, b) == FLt(b, a)

\* a >= b
FGe(a, b) == FLe(b, a)

\* AsUsize with the cast rounding to nearest instead of truncating
AsUsize_round(x) ==
    CASE is_nan(x) -> 0
      [] x.k = "inf" -> IF x.n > 0 THEN USIZE_MAX ELSE 0
      [] x.n < 0 -> 0
      [] OTHER -> IF (2 * x.n + x.d) \div (2 * x.d) > USIZE_MAX THEN USIZE_MAX
                  ELSE (2 * x.n + x.d) \div (2 * x.d)

\* `x as usize`: truncation toward zero, saturating; NaN gives 0
AsUsize(x) ==
    CASE is_nan(x) -> 0
      [] x.k = "inf" -> IF x.n > 0 THEN USIZE_MAX ELSE 0
      [] x.n < 0 -> 0
      [] OTHER -> IF x.n \div x.d > USIZE_MAX THEN USIZE_MAX ELSE x.n \div x.d

\* ------------------------------------------------------------- inputs
\* the weights a caller may pass: NaN, +-infinity, -1, 0 .. MaxWeight, f64::MAX
Weights ==
    {NaN, Inf, NegInf, FromInt(F64_MAX)} \cup {FromInt(i) : i \in -1..MaxWeight}

WeightSeqs == UNION {[1..n -> Weights] : n \in 0..MaxLen}

\* the values r.next_f64() may return: multiples of 1/UDen in [0, 1)
Uniform == {Rat(i, UDen) : i \in 0..(UDen - 1)}

\* the arguments tried for cdf: halves from -1 to MaxLen + 1, NaN, +-infinity
CdfArgs ==
    {NaN, Inf, NegInf} \cup {Rat(h, 2) : h \in -2..(2 * MaxLen + 2)}

\* ------------------------------------------------------------- state
VARIABLES
    prob_mass,  \* the slice passed to Categorical::new
    dist,       \* what new returned: state "none" (not called), "BadParams", "Ok"
    rng,        \* number of uniform draws taken from the random source r
    last        \* the last call: its name, argument, outcome and cdf reads

vars == <<prob_mass, dist, rng, last>>

\* no f64 value (an absent argument or result)
None == [k |-> "none", n |-> 0, d |-> 1]

NoObject(st) == [state |-> st, norm_pmf |-> <<>>, cdf |-> <<>>]

\* the record of a call; reads are the 0-based indices read from self.cdf,
\* ub tells that one of them was outside the vector (get_unchecked)
Call(op, arg, ret, n64, panicked, reads, ub) ==
    [op |-> op, arg |-> arg, ret |-> ret, n64 |-> n64,
     panicked |-> panicked, reads |-> reads, ub |-> ub]

\* ------------------------------------------------------------- program
\* is_valid_prob_mass without the x.is_nan() test
is_valid_prob_mass_no_nan(p) ==
    /\ ~(\E i \in DOMAIN p : FLt(p[i], Zero))
    /\ ~(\A i \in DOMAIN p : FEq(p[i], Zero))

is_valid_prob_mass(p) ==
    /\ ~(\E i \in DOMAIN p : FLt(p[i], Zero) \/ is_nan(p[i]))
    /\ ~(\A i \in DOMAIN p : FEq(p[i], Zero))

\* for i in 1..len { cdf[i] = cdf[i - 1] + prob_mass[i] }   (i is 0-based)
RECURSIVE cdf_loop(_, _, _)
cdf_loop(p, cdf, i) ==
    IF i >= Len(p) THEN cdf
    ELSE cdf_loop(p, [cdf EXCEPT ![i + 1] = FAdd(cdf[i], p[i + 1])], i + 1)

\* Categorical::new
Categorical_new(p) ==
    IF ~is_valid_prob_mass(p) THEN NoObject("BadParams")
    ELSE LET zeros == [i \in 1..Len(p) |-> Zero]
             cdf == cdf_loop(p, [zeros EXCEPT ![1] = p[1]], 1)
             sum == cdf[Len(cdf)]
         IN  [state |-> "Ok",
              norm_pmf |-> [i \in 1..Len(p) |-> FDiv(p[i], sum)],
              cdf |-> cdf]

cdf_max(self) == self.cdf[Len(self.cdf)]

\* while *el == 0.0 { idx += 1; el = cdf.get_unchecked(idx) }
RECURSIVE skip_zero(_, _, _)
skip_zero(cdf, idx, reads) ==
    IF idx >= Len(cdf) THEN [idx |-> idx, reads |-> reads \cup {idx}, ub |-> TRUE]
    ELSE IF FEq(cdf[idx + 1], Zero) THEN skip_zero(cdf, idx + 1, reads \cup {idx})
    ELSE [idx |-> idx, reads |-> reads \cup {idx}, ub |-> FALSE]

\* while draw > *el { idx += 1; el = cdf.get_unchecked(idx) }
RECURSIVE search(_, _, _, _)
search(cdf, draw, idx, reads) ==
    IF idx >= Len(cdf) THEN [idx |-> idx, reads |-> reads \cup {idx}, ub |-> TRUE]
    ELSE IF FGt(draw, cdf[idx + 1]) THEN search(cdf, draw, idx + 1, reads \cup {idx})
    ELSE [idx |-> idx, reads |-> reads \cup {idx}, ub |-> FALSE]

\* Distribution::sample with u the value r.next_f64() returned
sample(self, u) ==
    LET draw == FMul(u, cdf_max(self))
        r0 == {Len(self.cdf) - 1}
        skipped == IF FEq(draw, Zero) THEN skip_zero(self.cdf, 0, r0)
                   ELSE [idx |-> 0, reads |-> r0, ub |-> FALSE]
    IN  IF skipped.ub THEN skipped
        ELSE search(self.cdf, draw, skipped.idx, skipped.reads)

\* next_f64 called a second time for the same sample
next_f64_twice(r) == r + 2

\* r.next_f64() advances the random source by one draw
next_f64(r) == r + 1

\* cdf whose assertion tests only the upper end of the interval
cdf_no_lower_bound(self, x) ==
    LET len == FromInt(Len(self.cdf))
    IN  IF ~FLe(x, len)
        THEN Call("cdf", x, None, 0, TRUE, {}, FALSE)
        ELSE IF FEq(x, len)
        THEN Call("cdf", x, One, 0, FALSE, {}, FALSE)
        ELSE LET i == AsUsize(x)
             IN  IF i >= Len(self.cdf)
                 THEN Call("cdf", x, None, 0, FALSE, {i}, TRUE)
                 ELSE Call("cdf", x, FDiv(self.cdf[i + 1], cdf_max(self)), 0,
                           FALSE, {i, Len(self.cdf) - 1}, FALSE)

\* Univariate::cdf
cdf(self, x) ==
    LET len == FromInt(Len(self.cdf))
    IN  IF ~(FGe(x, Zero) /\ FLe(x, len))
        THEN Call("cdf", x, None, 0, TRUE, {}, FALSE)
        ELSE IF FEq(x, len)
        THEN Call("cdf", x, One, 0, FALSE, {}, FALSE)
        ELSE LET i == AsUsize(x)
             IN  IF i >= Len(self.cdf)
                 THEN Call("cdf", x, None, 0, FALSE, {i}, TRUE)
                 ELSE Call("cdf", x, FDiv(self.cdf[i + 1], cdf_max(self)), 0,
                           FALSE, {i, Len(self.cdf) - 1}, FALSE)

\* Min::min
min(self) == 0

\* Max::max
max(self) == Len(self.cdf) - 1

\* fold(0.0, |acc, (idx, &val)| acc + idx as f64 * val) from position i on
RECURSIVE mean_fold(_, _, _)
mean_fold(pmf, acc, i) ==
    IF i >= Len(pmf) THEN acc
    ELSE mean_fold(pmf, FAdd(acc, FMul(FromInt(i), pmf[i + 1])), i + 1)

\* Mean::mean
mean(self) == mean_fold(self.norm_pmf, Zero, 0)

\* ------------------------------------------------------------- actions
Init ==
    /\ prob_mass \in WeightSeqs
    /\ dist = NoObject("none")
    /\ rng = 0
    /\ last = Call("none", None, None, 0, FALSE, {}, FALSE)

\* Categorical::new(&prob_mass)
New ==
    /\ dist.state = "none"
    /\ dist' = Categorical_new(prob_mass)
    /\ last' = Call("new", None, None, 0, FALSE, {}, FALSE)
    /\ UNCHANGED <<prob_mass, rng>>

\* the body shared by the three sampling entry points
DoSample ==
    /\ dist.state = "Ok"
    /\ rng < MaxDraws
    /\ \E u \in Uniform :
          LET s == sample(dist, u)
          IN  IF s.ub
              THEN \E v \in 0..MaxLen, crash \in BOOLEAN :
                      last' = Call("sample", u, FromInt(v), 0, crash, s.reads, TRUE)
              ELSE last' = Call("sample", u, FromInt(s.idx), 0, FALSE, s.reads, FALSE)
    /\ rng' = next_f64(rng)
    /\ UNCHANGED <<prob_mass, dist>>

\* rand::distributions::Sample::sample(&mut self, r)
SampleMut == DoSample

\* rand::distributions::IndependentSample::ind_sample(&self, r)
IndSample == DoSample

\* Distribution::sample(&self, r)
Sample == DoSample

\* Univariate::cdf(&self, x)
Cdf ==
    /\ dist.state = "Ok"
    /\ \E x \in CdfArgs :
          LET c == cdf(dist, x)
          IN  IF c.ub
              THEN \E v \in Weights, crash \in BOOLEAN :
                      last' = [c EXCEPT !.ret = v, !.panicked = crash]
              ELSE last' = c
    /\ UNCHANGED <<prob_mass, dist, rng>>

\* Mean::mean(&self)
MeanCall ==
    /\ dist.state = "Ok"
    /\ last' = Call("mean", None, mean(dist), 0, FALSE, {}, FALSE)
    /\ UNCHANGED <<prob_mass, dist, rng>>

\* Min::min(&self)
MinCall ==
    /\ dist.state = "Ok"
    /\ last' = Call("min", None, None, min(dist), FALSE, {}, FALSE)
    /\ UNCHANGED <<prob_mass, dist, rng>>

\* Max::max(&self)
MaxCall ==
    /\ dist.state = "Ok"
    /\ last' = Call("max", None, None, max(dist), FALSE, {}, FALSE)
    /\ UNCHANGED <<prob_mass, dist, rng>>

Next ==
    \/ New
    \/ SampleMut
    \/ IndSample
    \/ Sample
    \/ Cdf
    \/ MeanCall
    \/ MinCall
    \/ MaxCall

Spec == Init /\ [][Next]_vars

\* ------------------------------------------------------------- vocabulary of the claims
IsFinite(x) == x.k = "fin"

IsNegative(x) == x.k \in {"fin", "inf"} /\ x.n < 0

IsZero(x) == x.k = "fin" /\ x.n = 0

\* non-empty, every element finite and >= 0, not all zero
ValidWeights(w) ==
    /\ Len(w) >= 1
    /\ \A i \in DOMAIN w : IsFinite(w[i]) /\ w[i].n >= 0
    /\ \E i \in DOMAIN w : ~IsZero(w[i])

\* number of categories of the constructed distribution
K == Len(dist.cdf)

\* 0 <= x <= k for a real x
InRange(x, k) == IsFinite(x) /\ x.n >= 0 /\ x.n <= k * x.d

\* x < 0, or x > k
OutOfRange(x, k) ==
    \/ IsNegative(x)
    \/ x.k = "inf" /\ x.n > 0
    \/ IsFinite(x) /\ x.n > k * x.d

\* floor of a finite x >= 0
Floor(x) == x.n \div x.d

\* w[1] + ... + w[i], accumulated left to right
RECURSIVE PrefixSum(_, _)
PrefixSum(w, i) == IF i = 1 THEN w[1] ELSE FAdd(PrefixSum(w, i - 1), w[i])

\* (0 + s[1]) + ... + s[i]
RECURSIVE SumTo(_, _)
SumTo(s, i) == IF i = 0 THEN Zero ELSE FAdd(SumTo(s, i - 1), s[i])

\* sum over the 0-based index j < i of j * s[j]
RECURSIVE IndexedSumTo(_, _)
IndexedSumTo(s, i) ==
    IF i = 0 THEN Zero
    ELSE FAdd(IndexedSumTo(s, i - 1), FMul(FromInt(i - 1), s[i]))

\* c * w, element by element
Scale(c, w) == [i \in DOMAIN w |-> FMul(c, w[i])]

\* the positive factors tried for rescaling
Factors == {Rat(1, 2), Rat(2, 1), Rat(3, 1)}

\* the index sample returned, as an integer
SampledIdx == last.ret.n

\* ------------------------------------------------------------- claims

\* C1: new returns BadParams, and no distribution object, for every weight
\* sequence that is empty, contains a negative element, contains a NaN
\* element, or consists only of zeros.
C1_BadParams ==
    (/\ dist.state # "none"
     /\ \/ Len(prob_mass) = 0
        \/ \E i \in DOMAIN prob_mass : IsNegative(prob_mass[i])
        \/ \E i \in DOMAIN prob_mass : is_nan(prob_mass[i])
        \/ \A i \in DOMAIN prob_mass : IsZero(prob_mass[i]))
    => dist = NoObject("BadParams")

\* new has rejected a sequence holding a NaN beside a positive weight
C1_Witness ==
    /\ dist.state = "BadParams"
    /\ \E i \in DOMAIN prob_mass : is_nan(prob_mass[i])
    /\ \E i \in DOMAIN prob_mass : IsFinite(prob_mass[i]) /\ prob_mass[i].n > 0
    /\ \A i \in DOMAIN prob_mass : ~IsNegative(prob_mass[i])

\* C2: for every valid weight sequence (non-empty, finite, non-negative, not
\* all zero) new succeeds, cumulative[i] is the left-to-right prefix sum,
\* normalizedMass[i] = w[i] / cumulative[k-1], and the masses sum to 1.
C2_Construct ==
    (dist.state # "none" /\ ValidWeights(prob_mass))
    => /\ dist.state = "Ok"
       /\ Len(dist.cdf) = Len(prob_mass)
       /\ Len(dist.norm_pmf) = Len(prob_mass)
       /\ \A i \in DOMAIN prob_mass :
             /\ dist.cdf[i] = PrefixSum(prob_mass, i)
             /\ dist.norm_pmf[i] = FDiv(prob_mass[i], dist.cdf[K])
       /\ SumTo(dist.norm_pmf, K) = One

\* C3: sample never returns an index whose original weight is zero.
C3_NoZeroWeight ==
    last.op = "sample"
    => /\ ~last.ub
       /\ SampledIdx \in 0..(K - 1)
       /\ ~IsZero(prob_mass[SampledIdx + 1])

\* C4: for 0 <= x <= k, cdf(x) is 1.0 when x = k and otherwise
\* cumulative[floor(x)] / cumulative[k-1]; so cdf(x) = cdf(floor(x)).
C4_CdfStep ==
    (last.op = "cdf" /\ InRange(last.arg, K))
    => /\ ~last.ub
       /\ ~last.panicked
       /\ (last.arg = FromInt(K) => last.ret = One)
       /\ (last.arg # FromInt(K) =>
              /\ last.ret = FDiv(dist.cdf[Floor(last.arg) + 1], dist.cdf[K])
              /\ last.ret = cdf(dist, FromInt(Floor(last.arg))).ret)

\* cdf was evaluated strictly between two integers and returned a
\* probability strictly between 0 and 1
C4_Witness ==
    /\ last.op = "cdf"
    /\ InRange(last.arg, K)
    /\ last.arg.d = 2
    /\ Floor(last.arg) >= 1
    /\ FLt(Zero, last.ret)
    /\ FLt(last.ret, One)

\* C5: cdf aborts, returns nothing and reads nothing from cumulative when
\* x < 0 or x > k; it does not abort when 0 <= x <= k.
C5_CdfAborts ==
    last.op = "cdf"
    => /\ OutOfRange(last.arg, K) =>
             /\ last.panicked
             /\ last.ret = None
             /\ last.reads = {}
             /\ ~last.ub
       /\ InRange(last.arg, K) => ~last.panicked

\* cdf has aborted below the range
C5_Witness ==
    /\ last.op = "cdf"
    /\ last.panicked
    /\ IsFinite(last.arg)
    /\ last.arg.n < 0

\* C6: on [0, k] cdf is non-decreasing, lies in [0, 1], is 1.0 at k and
\* equals cdf(k) on [k-1, k).
C6_CdfMonotone ==
    (last.op = "cdf" /\ InRange(last.arg, K))
    => /\ FLe(Zero, last.ret)
       /\ FLe(last.ret, One)
       /\ \A y \in CdfArgs :
             (InRange(y, K) /\ FLe(last.arg, y)) => FLe(last.ret, cdf(dist, y).ret)
       /\ cdf(dist, FromInt(K)).ret = One
       /\ FLe(FromInt(K - 1), last.arg) => last.ret = One

\* C7: mean() is the sum of i * normalizedMass[i], and the distribution
\* built from c * w has the same mean for every valid w and positive c.
C7_Mean ==
    last.op = "mean"
    => /\ last.ret = IndexedSumTo(dist.norm_pmf, K)
       /\ ValidWeights(prob_mass) =>
             \A c \in Factors :
                LET scaled == Categorical_new(Scale(c, prob_mass))
                IN  scaled.state = "Ok" /\ mean(scaled) = last.ret

\* C8: sample reads cumulative only inside 0..k-1 and returns the first
\* index idx, counted from the start of the search, with
\* draw <= cumulative[idx]; the result lies in [0, k-1].
C8_SampleSearch ==
    last.op = "sample"
    => LET draw == FMul(last.arg, dist.cdf[K])
           nonzero == {j \in 0..(K - 1) : ~FEq(dist.cdf[j + 1], Zero)}
           start == IF FEq(draw, Zero)
                    THEN CHOOSE j \in nonzero : \A i \in nonzero : j <= i
                    ELSE 0
       IN  /\ ~last.ub
           /\ ~last.panicked
           /\ last.reads \subseteq 0..(K - 1)
           /\ min(dist) = 0
           /\ max(dist) = K - 1
           /\ SampledIdx \in min(dist)..max(dist)
           /\ SampledIdx >= start
           /\ FLe(draw, dist.cdf[SampledIdx + 1])
           /\ \A j \in start..(SampledIdx - 1) : ~FLe(draw, dist.cdf[j + 1])

\* C9: every distribution new returns was built from at least one weight,
\* all of them finite and non-negative, not all zero.
C9_FiniteWeights ==
    dist.state = "Ok" => ValidWeights(prob_mass)

\* C10: once constructed, no call changes normalizedMass or cumulative; a
\* sample call advances the random source by exactly one draw, and cdf,
\* mean, min and max leave it alone.
C10_Frame ==
    [][dist.state = "Ok" =>
          /\ dist' = dist
          /\ prob_mass' = prob_mass
          /\ (last'.op = "sample" => rng' = rng + 1)
          /\ (last'.op # "sample" => rng' = rng)]_vars

\* two draws were taken and a later cdf call has aborted
C10_Witness ==
    /\ dist.state = "Ok"
    /\ rng = 2
    /\ last.op = "cdf"
    /\ last.panicked

====
